---- MODULE Spec2Model ----
(***************************************************************************)
(* Burn-scar detection pipeline of indonesian-fires (src/core.py).         *)
(*                                                                         *)
(* A raster is a function from pixel positions to pixels.  A pixel is      *)
(* either no-data (masked) or carries its band values.  Band values are    *)
(* kept in hundredths (B2 = 30 is a reflectance of 0.30, B10 = 29000 is    *)
(* 290 K); every expression the code evaluates on them is computed in      *)
(* exact rational arithmetic, a rational being a pair <<n, d>> in lowest   *)
(* terms with d > 0.                                                       *)
(*                                                                         *)
(* The Earth Engine calls of the code (expression, min, mask, lte, gt,     *)
(* normalizedDifference, filterDate, buffer, union, clip) are modelled by  *)
(* what they compute per pixel.  Earth Engine builds a deferred            *)
(* computation: a failing step (a band that the image does not have)       *)
(* raises nothing in Python, it makes the returned image one whose         *)
(* evaluation fails.  Such an image is the value Failed here, and every    *)
(* operation on it gives Failed again.                                     *)
(***************************************************************************)
EXTENDS Integers, Sequences, FiniteSets, TLC

\* Number of pixel positions of the modelled rasters (positions 1..NPix, one
\* metre apart on a line).
NPix == 2

\* Largest number of images held by the image collection when
\* generateBurnRatio is run on its own.
MaxImages == 3

\* Largest number of images held by the image collection when main is run.
MaxMainImages == 2

Pixels == 1 .. NPix

--------------------------------------------------------------------------
(* Exact arithmetic on the pixel values *)

Abs(x) == IF x < 0 THEN -x ELSE x

RECURSIVE GCD(_, _)
GCD(a, b) == IF b = 0 THEN a ELSE GCD(b, a % b)

\* n/d in lowest terms with a positive denominator (d # 0).
Norm(n, d) ==
    LET g == GCD(Abs(n), Abs(d))
        s == IF d < 0 THEN -1 ELSE 1
    IN  << (s * n) \div g, (s * d) \div g >>

Rat(n, d) == Norm(n, d)

Zero == Rat(0, 1)
One == Rat(1, 1)

\* A band value, stored in hundredths, as the number the code computes on.
Val(x) == Rat(x, 100)

RAdd(a, b) == Norm(a[1] * b[2] + b[1] * a[2], a[2] * b[2])
RSub(a, b) == Norm(a[1] * b[2] - b[1] * a[2], a[2] * b[2])
RDiv(a, b) == Norm(a[1] * b[2], a[2] * b[1])
RLeq(a, b) == a[1] * b[2] <= b[1] * a[2]
RLt(a, b) == a[1] * b[2] < b[1] * a[2]
RMin(a, b) == IF RLeq(a, b) THEN a ELSE b

--------------------------------------------------------------------------
(* Images *)

\* A masked pixel.
NoData == [valid |-> FALSE]

\* A valid pixel of a single-band image.
Value(v) == [valid |-> TRUE, v |-> v]

\* The sequence f[1], ..., f[n] of a function on 1 .. n, written out.
RECURSIVE Tabulate(_, _)
Tabulate(f, n) == IF n = 0 THEN << >> ELSE Append(Tabulate(f, n - 1), f[n])

\* The image with pixel f[p] at position p.
Raster(f) == [kind |-> "raster", px |-> Tabulate(f, NPix)]

\* The image without any band: the reduction of an empty collection.
NoBands == [kind |-> "nobands"]

\* An image whose evaluation fails.
Failed == [kind |-> "error"]

\* A local variable not yet assigned.
Unset == [kind |-> "unset"]

\* img.lte(thresh)
Lte(img, thresh) ==
    IF img.kind # "raster" THEN Failed
    ELSE Raster([p \in Pixels |->
            IF img.px[p].valid
            THEN Value(IF RLeq(img.px[p].v, thresh) THEN One ELSE Zero)
            ELSE NoData])

\* The comparison a strict "less than" would give.
LtStrict(img, thresh) ==
    IF img.kind # "raster" THEN Failed
    ELSE Raster([p \in Pixels |->
            IF img.px[p].valid
            THEN Value(IF RLt(img.px[p].v, thresh) THEN One ELSE Zero)
            ELSE NoData])

\* The comparison a "greater or equal" would give.
GtOrEqual(img, c) ==
    IF img.kind # "raster" THEN Failed
    ELSE Raster([p \in Pixels |->
            IF img.px[p].valid
            THEN Value(IF RLeq(c, img.px[p].v) THEN One ELSE Zero)
            ELSE NoData])

\* img.gt(c)
Gt(img, c) ==
    IF img.kind # "raster" THEN Failed
    ELSE Raster([p \in Pixels |->
            IF img.px[p].valid
            THEN Value(IF RLt(c, img.px[p].v) THEN One ELSE Zero)
            ELSE NoData])

\* a.subtract(b)
Subtract(a, b) ==
    IF a.kind # "raster" \/ b.kind # "raster" THEN Failed
    ELSE Raster([p \in Pixels |->
            IF a.px[p].valid /\ b.px[p].valid
            THEN Value(RSub(a.px[p].v, b.px[p].v))
            ELSE NoData])

\* img.mask(binary): a pixel stays valid where the mask is valid and not
\* zero, and keeps its band values; elsewhere it is no-data.
Mask(img, binary) ==
    IF img.kind = "error" \/ binary.kind = "error" THEN Failed
    ELSE IF img.kind = "nobands" THEN NoBands
    ELSE IF binary.kind # "raster" THEN Failed
    ELSE Raster([p \in Pixels |->
            IF binary.px[p].valid /\ binary.px[p].v # Zero
            THEN img.px[p]
            ELSE NoData])

\* (a - b) / (a + b) on two values; no-data where the sum is zero.
NormalizedDifferencePx(a, b) ==
    IF RAdd(a, b) = Zero THEN NoData
    ELSE Value(RDiv(RSub(a, b), RAdd(a, b)))

\* img.normalizedDifference([b1, b2]); an image without the bands fails.
NormalizedDifference(img, b1, b2) ==
    IF img.kind # "raster" THEN Failed
    ELSE Raster([p \in Pixels |->
            IF img.px[p].valid
            THEN NormalizedDifferencePx(Val(img.px[p][b1]), Val(img.px[p][b2]))
            ELSE NoData])

--------------------------------------------------------------------------
(* cloudDensity *)

\* A rescale that puts a descending pair of thresholds in ascending order.
RescaleAscending(raw, t0, t1) ==
    IF RLeq(t0, t1)
    THEN RDiv(RSub(raw, t0), RSub(t1, t0))
    ELSE RDiv(RSub(raw, t1), RSub(t0, t1))

\* _rescale: (value - thresholds[0]) / (thresholds[1] - thresholds[0])
Rescale(raw, t0, t1) == RDiv(RSub(raw, t0), RSub(t1, t0))

\* A starting score above 1.
ScoreStartHigh == Rat(2, 1)

\* score = ee.Image(1.0)
ScoreStart == One

\* The score of one pixel of a seven-band image.
CloudDensityPx(px) ==
    IF ~px.valid THEN NoData
    ELSE
    LET s0 == ScoreStart
        \* 'img.B2', [0.1, 0.3]
        s1 == RMin(s0, Rescale(Val(px.B2), Rat(1, 10), Rat(3, 10)))
        \* 'img.B4 + img.B3 + img.B2', [0.2, 0.8]
        s2 == RMin(s1, Rescale(RAdd(RAdd(Val(px.B4), Val(px.B3)), Val(px.B2)),
                               Rat(2, 10), Rat(8, 10)))
        \* 'img.B5 + img.B6 + img.B7', [0.3, 0.8]
        s3 == RMin(s2, Rescale(RAdd(RAdd(Val(px.B5), Val(px.B6)), Val(px.B7)),
                               Rat(3, 10), Rat(8, 10)))
        \* 'img.B10', [300, 290]
        s4 == RMin(s3, Rescale(Val(px.B10), Rat(300, 1), Rat(290, 1)))
        ndsi == NormalizedDifferencePx(Val(px.B3), Val(px.B6))
    IN  IF ~ndsi.valid THEN NoData
        \* ndsi, [0.8, 0.6]
        ELSE Value(RMin(s4, Rescale(ndsi.v, Rat(8, 10), Rat(6, 10))))

\* cloudDensity(img); 'img.B2' on an image without bands fails.
CloudDensity(img) ==
    IF img.kind # "raster" THEN Failed
    ELSE Raster([p \in Pixels |-> CloudDensityPx(img.px[p])])

--------------------------------------------------------------------------
(* cloudMask, makeCloudFree *)

\* A cloud mask that drops the pixels whose score equals the threshold.
CloudMaskStrict(img, cloud_scores, thresh) ==
    Mask(img, LtStrict(cloud_scores, thresh))

\* cloudMask(img, cloud_scores, thresh)
CloudMask(img, cloud_scores, thresh) ==
    Mask(img, Lte(cloud_scores, thresh))

\* The threshold makeCloudFree passes to cloudMask.
CLOUD_THRESH == Rat(1, 2)

\* makeCloudFree(img)
MakeCloudFree(img) == CloudMask(img, CloudDensity(img), CLOUD_THRESH)

--------------------------------------------------------------------------
(* createComposite *)

\* The date ranges of the two fire seasons, as yyyymmdd.
INIT == << 20130330, 20130930 >>
POST == << 20140501, 20140930 >>

Min(a, b) == IF a <= b THEN a ELSE b

\* A reduction that keeps the first image's values.
BandFirst(a, b) == a

\* The per-band minimum of two valid pixels.
BandMin(a, b) ==
    [valid |-> TRUE,
     B2 |-> Min(a.B2, b.B2), B3 |-> Min(a.B3, b.B3), B4 |-> Min(a.B4, b.B4),
     B5 |-> Min(a.B5, b.B5), B6 |-> Min(a.B6, b.B6), B7 |-> Min(a.B7, b.B7),
     B10 |-> Min(a.B10, b.B10)]

\* The minimum over the unmasked pixels of a sequence of pixels, taken in
\* the order of the sequence; no-data when none is unmasked.
RECURSIVE MinOver(_)
MinOver(pxs) ==
    IF pxs = << >> THEN NoData
    ELSE LET h == Head(pxs)
             rest == MinOver(Tail(pxs))
         IN  IF ~h.valid THEN rest
             ELSE IF ~rest.valid THEN h
             ELSE BandMin(h, rest)

\* coll.min(): bands are matched by name across the images, so that an empty
\* collection gives an image without bands.
ReduceMin(coll) ==
    IF coll = << >> THEN NoBands
    ELSE IF \E i \in 1 .. Len(coll) : coll[i].kind # "raster" THEN Failed
    ELSE Raster([p \in Pixels |->
            MinOver([i \in 1 .. Len(coll) |-> coll[i].px[p]])])

\* filterDate(start, end): start inclusive, end exclusive.
InRange(entry, start, end) == start <= entry.date /\ entry.date < end

RECURSIVE FilterDate(_, _, _)
FilterDate(entries, start, end) ==
    IF entries = << >> THEN << >>
    ELSE IF InRange(Head(entries), start, end)
         THEN << Head(entries) >> \o FilterDate(Tail(entries), start, end)
         ELSE FilterDate(Tail(entries), start, end)

\* createComposite(time_range) over the images of the collection.
CreateComposite(entries, time_range) ==
    LET collection == FilterDate(entries, time_range[1], time_range[2])
        coll == Tabulate([i \in 1 .. Len(collection) |->
                             MakeCloudFree(collection[i].img)], Len(collection))
    IN  ReduceMin(coll)

--------------------------------------------------------------------------
(* generateBurnRatio *)

\* A season's composite without the second cloud mask.
CompositeOnly(entries, season) == CreateComposite(entries, season)

\* init = makeCloudFree(createComposite(init_season)), and the same for post
SeasonComposite(entries, season) ==
    MakeCloudFree(CreateComposite(entries, season))

\* The threshold on the difference of the burn ratios.
BURN_THRESH == Rat(44, 100)

\* normalizedDifference(['B6', 'B4'])
NBR(img) == NormalizedDifference(img, "B6", "B4")

\* nbr = nbr_post.subtract(nbr_init).gt(0.44); return nbr.mask(nbr)
BurnMask(init_img, post_img) ==
    LET nbr_init == NBR(init_img)
        nbr_post == NBR(post_img)
        b == Gt(Subtract(nbr_post, nbr_init), BURN_THRESH)
    IN  Mask(b, b)

--------------------------------------------------------------------------
(* loadFireBuffer, clip *)

\* f.buffer(meters) of a point feature at position f: the positions within
\* that distance; a negative distance leaves nothing.
Buffer(f, meters) == {p \in Pixels : Abs(p - f) <= meters}

\* loadFireBuffer(fire_location, meters)
LoadFireBuffer(fire_points, meters) ==
    UNION {Buffer(f, meters) : f \in fire_points}

\* A clip that leaves the image as it is.
ClipNothing(img, region) == img

\* img.clip(region)
Clip(img, region) ==
    IF img.kind # "raster" THEN Failed
    ELSE Raster([p \in Pixels |->
            IF p \in region THEN img.px[p] ELSE NoData])

--------------------------------------------------------------------------
(* The inputs: the image collection, the fire table, the command line *)

Spectrum(b2, b3, b4, b5, b6, b7, b10) ==
    [valid |-> TRUE, B2 |-> b2, B3 |-> b3, B4 |-> b4, B5 |-> b5,
     B6 |-> b6, B7 |-> b7, B10 |-> b10]

\* Clear, warm land with a burn ratio (B6 - B4) / (B6 + B4) of 0.06 and 0.5.
Clear1 == Spectrum(5, 5, 47, 30, 53, 20, 30000)
Clear2 == Spectrum(5, 5, 10, 30, 30, 20, 30000)
\* Bright and warm (burn ratio 0); bright, cold and snow-like (burn ratio
\* -5/7); bright and cold, a cloud.
BrightWarm == Spectrum(30, 10, 30, 30, 30, 30, 30000)
ColdSnow == Spectrum(30, 50, 30, 30, 5, 30, 29000)
Cloudy == Spectrum(40, 40, 40, 40, 40, 40, 28500)

Palette == << ColdSnow, BrightWarm, Clear2, Clear1, Cloudy, NoData >>

\* The scene whose pixel at position p shows Palette[k + p - 1], cyclically.
Scene(k) ==
    Raster([p \in Pixels |-> Palette[((k + p - 2) % Len(Palette)) + 1]])

\* Acquisition dates: two in the INIT range, one in the POST range, one in
\* neither.
Dates == {20130601, 20130801, 20140601, 20150101}

RECURSIVE Ascending(_)
Ascending(S) ==
    IF S = {} THEN << >>
    ELSE LET m == CHOOSE x \in S : \A y \in S : x <= y
         IN  << m >> \o Ascending(S \ {m})

\* The collection 'LC8_L1T_TOA': at most n images, in the order of their
\* acquisition dates.
CatalogsUpTo(n) ==
    UNION { { [i \in 1 .. Cardinality(D) |->
                 [date |-> Ascending(D)[i], img |-> Scene(f[Ascending(D)[i]])]]
              : f \in [D -> 1 .. Len(Palette)] }
            : D \in {S \in SUBSET Dates : Cardinality(S) <= n} }

\* The fire table FIRES: point features at pixel positions.
FireTables == SUBSET Pixels

\* sys.argv[1:]
ArgLists ==
    { << >>, << "-m", "1" >>, << "-m", "0" >>, << "-m", "-1" >>,
      << "-m", "abc" >>, << "-m" >>, << "-x" >> }

\* An argument that getopt reads as an option.
IsOption(tok) == tok \in {"-m", "-x", "-1"}

\* int(arg): the strings Python's int() accepts, and their values.
IsInt(tok) == tok \in {"0", "1", "-1"}
IntVal(tok) == CASE tok = "0" -> 0 [] tok = "1" -> 1 [] tok = "-1" -> -1

\* getopt.getopt(args, "m:"): the options read so far are parsed; parsing
\* stops at the first argument that is no option; an option other than -m,
\* or -m without a value, is a GetoptError.
RECURSIVE GetoptParse(_, _)
GetoptParse(args, parsed) ==
    IF args = << >> \/ ~IsOption(Head(args))
    THEN [ok |-> TRUE, opts |-> parsed]
    ELSE IF Head(args) # "-m" \/ Len(args) = 1
    THEN [ok |-> FALSE]
    ELSE GetoptParse(SubSeq(args, 3, Len(args)),
                     Append(parsed, << "-m", args[2] >>))

--------------------------------------------------------------------------
(* State *)

VARIABLES
    argv,         \* sys.argv[1:]
    catalog,      \* the images of 'LC8_L1T_TOA'
    fires,        \* the point features of FIRES
    pc,           \* the position of main
    opts,         \* main's local opts
    printed,      \* whether main printed a GetoptError
    init,         \* generateBurnRatio's local init
    post,         \* generateBurnRatio's local post
    nbr,          \* main's local nbr
    fire_buffer,  \* main's local fire_buffer
    result,       \* the image main returned
    outcome,      \* how main ended
    fimg,         \* the img argument of a direct call
    fscores,      \* the cloud_scores argument of a direct cloudMask call
    fthresh,      \* the thresh argument of a direct cloudMask call
    fpc,          \* which direct calls have been made
    fclouds,      \* the result of cloudDensity(fimg)
    fmasked,      \* the result of cloudMask(fimg, fscores, fthresh)
    fcloudfree    \* the result of makeCloudFree(fimg)

mainVars ==
    << argv, catalog, fires, pc, opts, printed, init, post, nbr, fire_buffer,
       result, outcome >>
fnVars == << fimg, fscores, fthresh, fpc, fclouds, fmasked, fcloudfree >>
vars == << mainVars, fnVars >>

Unbound == [bound |-> FALSE]
Bound(v) == [bound |-> TRUE, v |-> v]

MainIdle ==
    /\ argv = << >>
    /\ catalog = << >>
    /\ fires = {}
    /\ pc = "idle"
    /\ opts = Unbound
    /\ printed = FALSE
    /\ init = Unset
    /\ post = Unset
    /\ nbr = Unset
    /\ fire_buffer = {}
    /\ result = Unset
    /\ outcome = "running"

FnIdle ==
    /\ fimg = Unset
    /\ fscores = Unset
    /\ fthresh = Zero
    /\ fpc = "idle"
    /\ fclouds = Unset
    /\ fmasked = Unset
    /\ fcloudfree = Unset

\* main is about to run on some command line, collection and fire table.
Init ==
    /\ argv \in ArgLists
    /\ catalog \in CatalogsUpTo(MaxMainImages)
    /\ fires \in FireTables
    /\ pc = "getopt"
    /\ opts = Unbound
    /\ printed = FALSE
    /\ init = Unset
    /\ post = Unset
    /\ nbr = Unset
    /\ fire_buffer = {}
    /\ result = Unset
    /\ outcome = "running"
    /\ FnIdle

--------------------------------------------------------------------------
(* main *)

\* try: opts, args = getopt.getopt(sys.argv[1:], "m:")
\* except getopt.GetoptError as err: print str(err)
Getopt ==
    /\ pc = "getopt"
    /\ LET r == GetoptParse(argv, << >>)
       IN  IF r.ok
           THEN opts' = Bound(r.opts) /\ printed' = FALSE
           ELSE opts' = Unbound /\ printed' = TRUE
    /\ pc' = "for"
    /\ UNCHANGED << argv, catalog, fires, init, post, nbr, fire_buffer,
                    result, outcome >>
    /\ UNCHANGED fnVars

\* for opt, arg in opts: if opt in ('-m'): ...
\* Reading the unassigned opts raises UnboundLocalError; with no option the
\* loop body never runs and main returns None; every parsed option is -m.
ForOpts ==
    /\ pc = "for"
    /\ IF ~opts.bound
       THEN pc' = "done" /\ outcome' = "UnboundLocalError"
       ELSE IF opts.v = << >>
       THEN pc' = "done" /\ outcome' = "None"
       ELSE pc' = "init" /\ outcome' = outcome
    /\ UNCHANGED << argv, catalog, fires, opts, printed, init, post, nbr,
                    fire_buffer, result >>
    /\ UNCHANGED fnVars

\* init = makeCloudFree(createComposite(init_season))
GenInit ==
    /\ pc = "init"
    /\ init' = SeasonComposite(catalog, INIT)
    /\ pc' = "post"
    /\ UNCHANGED << argv, catalog, fires, opts, printed, post, nbr,
                    fire_buffer, result, outcome >>
    /\ UNCHANGED fnVars

\* post = makeCloudFree(createComposite(post_season))
GenPost ==
    /\ pc = "post"
    /\ post' = SeasonComposite(catalog, POST)
    /\ pc' = "nbr"
    /\ UNCHANGED << argv, catalog, fires, opts, printed, init, nbr,
                    fire_buffer, result, outcome >>
    /\ UNCHANGED fnVars

\* the rest of generateBurnRatio; nbr = generateBurnRatio(INIT, POST)
GenNBR ==
    /\ pc = "nbr"
    /\ nbr' = BurnMask(init, post)
    /\ pc' = "buffer"
    /\ UNCHANGED << argv, catalog, fires, opts, printed, init, post,
                    fire_buffer, result, outcome >>
    /\ UNCHANGED fnVars

\* fire_buffer = loadFireBuffer(FIRES, int(arg)); int() raises ValueError
\* on a string that is no integer.
LoadBuffer ==
    /\ pc = "buffer"
    /\ LET arg == Head(opts.v)[2]
       IN  IF IsInt(arg)
           THEN /\ fire_buffer' = LoadFireBuffer(fires, IntVal(arg))
                /\ pc' = "clip"
                /\ outcome' = outcome
           ELSE /\ fire_buffer' = fire_buffer
                /\ pc' = "done"
                /\ outcome' = "ValueError"
    /\ UNCHANGED << argv, catalog, fires, opts, printed, init, post, nbr,
                    result >>
    /\ UNCHANGED fnVars

\* return nbr.clip(fire_buffer)
ClipReturn ==
    /\ pc = "clip"
    /\ result' = Clip(nbr, fire_buffer)
    /\ outcome' = "returned"
    /\ pc' = "done"
    /\ UNCHANGED << argv, catalog, fires, opts, printed, init, post, nbr,
                    fire_buffer >>
    /\ UNCHANGED fnVars

Next ==
    \/ Getopt
    \/ ForOpts
    \/ GenInit
    \/ GenPost
    \/ GenNBR
    \/ LoadBuffer
    \/ ClipReturn

Spec == Init /\ [][Next]_vars

\* generateBurnRatio(INIT, POST) is about to run on some collection.
InitBurn ==
    /\ argv = << >>
    /\ catalog \in CatalogsUpTo(MaxImages)
    /\ fires = {}
    /\ pc = "init"
    /\ opts = Unbound
    /\ printed = FALSE
    /\ init = Unset
    /\ post = Unset
    /\ nbr = Unset
    /\ fire_buffer = {}
    /\ result = Unset
    /\ outcome = "running"
    /\ FnIdle

NextBurn ==
    \/ GenInit
    \/ GenPost
    \/ GenNBR

SpecBurn == InitBurn /\ [][NextBurn]_vars

--------------------------------------------------------------------------
(* Direct calls of cloudDensity, cloudMask and makeCloudFree *)

\* Band values below, inside and above the calibration ranges.
FnSpectrum(i) ==
    Spectrum(IF i % 2 = 0 THEN 5 ELSE 40,
             IF (i \div 2) % 2 = 0 THEN 10 ELSE 50,
             30, 30,
             IF (i \div 4) % 2 = 0 THEN 5 ELSE 40,
             30,
             CASE (i \div 8) % 3 = 0 -> 28500
               [] (i \div 8) % 3 = 1 -> 29500
               [] OTHER -> 30500)

FnSpectra == 0 .. (2 * 2 * 2 * 3 - 1)

\* An image with footprint V whose pixels show consecutive spectra.
FnImage(i, V) ==
    Raster([p \in Pixels |->
        IF p \in V THEN FnSpectrum((i + p - 1) % Cardinality(FnSpectra))
        ELSE NoData])

ScoreSeq == << Zero, Rat(1, 4), Rat(1, 2), Rat(3, 4), One >>

\* A raster of cloud scores in [0, 1], aligned with an image of footprint V.
FnScores(j, V) ==
    Raster([p \in Pixels |->
        IF p \in V THEN Value(ScoreSeq[((j + p - 2) % Len(ScoreSeq)) + 1])
        ELSE NoData])

InitFn ==
    /\ MainIdle
    /\ \E i \in FnSpectra, V \in SUBSET Pixels, j \in 1 .. Len(ScoreSeq) :
          /\ fimg = FnImage(i, V)
          /\ fscores = FnScores(j, V)
    /\ fthresh \in {ScoreSeq[k] : k \in 1 .. Len(ScoreSeq)}
    /\ fpc = "density"
    /\ fclouds = Unset
    /\ fmasked = Unset
    /\ fcloudfree = Unset

\* cloudDensity(fimg)
CallCloudDensity ==
    /\ fpc = "density"
    /\ fclouds' = CloudDensity(fimg)
    /\ fpc' = "mask"
    /\ UNCHANGED << fimg, fscores, fthresh, fmasked, fcloudfree >>
    /\ UNCHANGED mainVars

\* cloudMask(fimg, fscores, fthresh)
CallCloudMask ==
    /\ fpc = "mask"
    /\ fmasked' = CloudMask(fimg, fscores, fthresh)
    /\ fpc' = "cloudfree"
    /\ UNCHANGED << fimg, fscores, fthresh, fclouds, fcloudfree >>
    /\ UNCHANGED mainVars

\* makeCloudFree(fimg)
CallMakeCloudFree ==
    /\ fpc = "cloudfree"
    /\ fcloudfree' = MakeCloudFree(fimg)
    /\ fpc' = "done"
    /\ UNCHANGED << fimg, fscores, fthresh, fclouds, fmasked >>
    /\ UNCHANGED mainVars

NextFn ==
    \/ CallCloudDensity
    \/ CallCloudMask
    \/ CallMakeCloudFree

SpecFn == InitFn /\ [][NextFn]_vars

--------------------------------------------------------------------------
(* Properties *)

\* The five rescaled signals of a pixel, each (raw - first) / (second -
\* first) on the pair of thresholds as written, descending pairs included.
Signals(px) ==
    << RDiv(RSub(Val(px.B2), Rat(1, 10)), RSub(Rat(3, 10), Rat(1, 10))),
       RDiv(RSub(RAdd(RAdd(Val(px.B4), Val(px.B3)), Val(px.B2)), Rat(2, 10)),
            RSub(Rat(8, 10), Rat(2, 10))),
       RDiv(RSub(RAdd(RAdd(Val(px.B5), Val(px.B6)), Val(px.B7)), Rat(3, 10)),
            RSub(Rat(8, 10), Rat(3, 10))),
       RDiv(RSub(Val(px.B10), Rat(300, 1)), RSub(Rat(290, 1), Rat(300, 1))),
       RDiv(RSub(RDiv(RSub(Val(px.B3), Val(px.B6)),
                      RAdd(Val(px.B3), Val(px.B6))), Rat(8, 10)),
            RSub(Rat(6, 10), Rat(8, 10))) >>

\* The least element of a non-empty sequence of rationals.
Least(sigs) ==
    CHOOSE m \in {sigs[i] : i \in 1 .. Len(sigs)} :
        \A i \in 1 .. Len(sigs) : RLeq(m, sigs[i])

\* The pixels of fimg that cloudDensity has scored.
Scored(p) ==
    /\ fclouds.kind = "raster"
    /\ fimg.px[p].valid
    /\ fclouds.px[p].valid

\* C1: cloudMask(img, scores, t) keeps a pixel if and only if its score is
\* <= t (a score equal to t is kept), a kept pixel carries exactly the band
\* values it had in img, and a pixel without data stays without data;
\* makeCloudFree is the same with the scores of cloudDensity and t = 0.5.
C1_MaskKeepsLowScoresUnchanged ==
    /\ fpc \in {"cloudfree", "done"} =>
          /\ fmasked.kind = "raster"
          /\ \A p \in Pixels :
                IF fimg.px[p].valid
                THEN /\ fmasked.px[p].valid <=> RLeq(fscores.px[p].v, fthresh)
                     /\ fmasked.px[p].valid => fmasked.px[p] = fimg.px[p]
                ELSE ~fmasked.px[p].valid
    /\ fpc = "done" =>
          /\ fcloudfree.kind = "raster"
          /\ \A p \in Pixels :
                IF Scored(p)
                THEN /\ fcloudfree.px[p].valid <=>
                            RLeq(fclouds.px[p].v, Rat(1, 2))
                     /\ fcloudfree.px[p].valid => fcloudfree.px[p] = fimg.px[p]
                ELSE ~fcloudfree.px[p].valid

\* cloudMask has kept a pixel whose score equals the threshold and dropped a
\* pixel whose score is above it.
C1_Witness ==
    /\ fpc \in {"cloudfree", "done"}
    /\ \E p, q \in Pixels :
          /\ fimg.px[p].valid /\ fscores.px[p].v = fthresh
          /\ fmasked.px[p].valid
          /\ fimg.px[q].valid /\ RLt(fthresh, fscores.px[q].v)
          /\ ~fmasked.px[q].valid

\* C6 as amended: the score of cloudDensity is the minimum of the constant
\* 1.0 and the five rescaled signals, hence <= each of the five signals.
C6_ScoreIsMinOfOneAndSignals ==
    fpc # "density" =>
        \A p \in Pixels :
            Scored(p) =>
                /\ fclouds.px[p].v = RMin(One, Least(Signals(fimg.px[p])))
                /\ \A i \in 1 .. 5 :
                      RLeq(fclouds.px[p].v, Signals(fimg.px[p])[i])

\* A pixel whose score is decided by the thermal signal, rescaled on the
\* descending pair [300, 290]: 295 K gives 0.5.
C6_Witness ==
    /\ fpc # "density"
    /\ \E p \in Pixels :
          /\ Scored(p)
          /\ fimg.px[p].B10 = 29500
          /\ fclouds.px[p].v = Rat(1, 2)
          /\ fclouds.px[p].v = Signals(fimg.px[p])[4]

\* C6 as stated: the score of cloudDensity is the minimum of the five
\* rescaled signals.
C6_ScoreIsMinOfSignals ==
    fpc # "density" =>
        \A p \in Pixels :
            Scored(p) => fclouds.px[p].v = Least(Signals(fimg.px[p]))

\* C7 as amended: every score of cloudDensity is <= 1; it is not bounded
\* below by 0.
C7_ScoreAtMostOne ==
    fpc # "density" =>
        \A p \in Pixels : Scored(p) => RLeq(fclouds.px[p].v, One)

\* A scored pixel whose blue band is below 0.1 or whose thermal band is
\* above 300 K: its score is negative.
C7_Witness ==
    /\ fpc # "density"
    /\ \E p \in Pixels :
          /\ Scored(p)
          /\ fimg.px[p].B2 < 10 \/ fimg.px[p].B10 > 30000
          /\ RLt(fclouds.px[p].v, Zero)

\* C7 as stated: every score of cloudDensity lies in [0, 1].
C7_ScoreInUnitInterval ==
    fpc # "density" =>
        \A p \in Pixels :
            Scored(p) =>
                RLeq(Zero, fclouds.px[p].v) /\ RLeq(fclouds.px[p].v, One)


\* (B6 - B4) / (B6 + B4) of a valid pixel with B6 + B4 # 0.
BurnRatio(px) ==
    RDiv(RSub(Val(px.B6), Val(px.B4)), RAdd(Val(px.B6), Val(px.B4)))

\* Both burn ratios are defined at p in the two images.
RatiosDefined(a, b, p) ==
    /\ a.kind = "raster" /\ b.kind = "raster"
    /\ a.px[p].valid /\ a.px[p].B6 + a.px[p].B4 # 0
    /\ b.px[p].valid /\ b.px[p].B6 + b.px[p].B4 # 0

\* NBR_post - NBR_init at p, from image a (init) to image b (post).
Delta(a, b, p) == RSub(BurnRatio(b.px[p]), BurnRatio(a.px[p]))

\* C2: where both burn ratios are defined the burn mask is valid, with the
\* value 1, if and only if delta > 0.44; at delta <= 0.44 (0.44 included) it
\* is no-data; the burn mask holds no valid pixel with another value.
C2_BurnedIffDeltaAboveThreshold ==
    nbr.kind = "raster" =>
        \A p \in Pixels :
            /\ nbr.px[p].valid => nbr.px[p].v = One
            /\ RatiosDefined(init, post, p) =>
                  (nbr.px[p].valid <=> RLt(Rat(44, 100), Delta(init, post, p)))

\* generateBurnRatio has met a pixel whose delta is exactly 0.44 and left it
\* without data.
C2_Witness ==
    /\ nbr.kind = "raster"
    /\ \E p \in Pixels :
          /\ RatiosDefined(init, post, p)
          /\ Delta(init, post, p) = Rat(44, 100)
          /\ ~nbr.px[p].valid

\* The number of meters main passes to loadFireBuffer.
Meters == IntVal(Head(opts.v)[2])

\* The union of the fire points buffered by the requested distance.
FireRegion == {p \in Pixels : \E f \in fires : Abs(p - f) <= Meters}

\* C3: the image main returns is the burn mask restricted to the fire
\* buffer: no-data at every pixel outside the region, and the burn mask's
\* own pixel at every pixel inside.
C3_ResultIsBurnMaskInsideRegion ==
    (pc = "done" /\ outcome = "returned" /\ nbr.kind = "raster") =>
        /\ result.kind = "raster"
        /\ \A p \in Pixels :
              IF p \in FireRegion
              THEN result.px[p] = nbr.px[p]
              ELSE ~result.px[p].valid

\* main has returned with a burned pixel inside the region kept and a burned
\* pixel outside the region dropped.
C3_Witness ==
    /\ pc = "done" /\ outcome = "returned" /\ nbr.kind = "raster"
    /\ \E p, q \in Pixels :
          /\ p \in FireRegion /\ nbr.px[p].valid /\ result.px[p].valid
          /\ q \notin FireRegion /\ nbr.px[q].valid /\ ~result.px[q].valid

\* A fire season without any image in the collection.
EmptySeason ==
    \/ FilterDate(catalog, INIT[1], INIT[2]) = << >>
    \/ FilterDate(catalog, POST[1], POST[2]) = << >>

\* C4: when a date range selects no image, the composite is an all-no-data
\* raster and main returns an all-no-data raster.
C4_EmptySeasonGivesNoData ==
    (pc = "done" /\ outcome = "returned" /\ EmptySeason) =>
        /\ result.kind = "raster"
        /\ \A p \in Pixels : ~result.px[p].valid

\* The reorderings of a sequence.
Perms(seq) ==
    { Tabulate([i \in 1 .. Len(seq) |-> seq[f[i]]], Len(seq)) :
        f \in {g \in [1 .. Len(seq) -> 1 .. Len(seq)] :
                 \A i, j \in 1 .. Len(seq) : i # j => g[i] # g[j]} }

\* C5: the composite of a season does not depend on the order of the
\* collection: every reordering gives the raster createComposite gave, in
\* values and validity.
C5_CompositeOrderIndependent ==
    /\ pc = "post" =>
          LET base == CreateComposite(catalog, INIT)
          IN  /\ init = MakeCloudFree(base)
              /\ \A perm \in Perms(catalog) :
                    CreateComposite(perm, INIT) = base
    /\ pc = "nbr" =>
          LET base == CreateComposite(catalog, POST)
          IN  /\ post = MakeCloudFree(base)
              /\ \A perm \in Perms(catalog) :
                    CreateComposite(perm, POST) = base

\* The INIT composite has been built from two images that are both unmasked
\* at some pixel and differ there.
C5_Witness ==
    /\ pc = "post"
    /\ LET coll == FilterDate(catalog, INIT[1], INIT[2])
       IN  \E i, j \in 1 .. Len(coll) : \E p \in Pixels :
              /\ i < j
              /\ MakeCloudFree(coll[i].img).px[p].valid
              /\ MakeCloudFree(coll[j].img).px[p].valid
              /\ coll[i].img.px[p] # coll[j].img.px[p]

\* C8: main never goes on to clip with a buffer made from a negative number
\* of meters: the call of loadFireBuffer ends in an error.
C8_NegativeMetersFailsAtCall ==
    pc = "clip" => Meters >= 0

\* C9: main ends either returning the clipped image or with an error
\* propagating; it never ends normally without an image, and after a
\* reported argument error it does not end normally.
C9_ReturnsImageOrRaises ==
    pc = "done" =>
        /\ outcome \in {"returned", "ValueError", "UnboundLocalError"}
        /\ printed => outcome \in {"ValueError", "UnboundLocalError"}

\* The cloud score of the composite's own band values at p is <= 0.5.
CompositeScoreLow(comp, p) ==
    /\ comp.kind = "raster"
    /\ comp.px[p].valid
    /\ CloudDensityPx(comp.px[p]).valid
    /\ RLeq(CloudDensityPx(comp.px[p]).v, Rat(1, 2))

\* C10: a pixel of the init or the post composite enters the burn ratio as
\* valid only if the cloud score of the composite's own band values is
\* <= 0.5; a pixel valid in the burn mask has such a score in both.
C10_CompositesMaskedAgain ==
    /\ init.kind = "raster" =>
          \A p \in Pixels :
              init.px[p].valid =>
                  CompositeScoreLow(CreateComposite(catalog, INIT), p)
    /\ post.kind = "raster" =>
          \A p \in Pixels :
              post.px[p].valid =>
                  CompositeScoreLow(CreateComposite(catalog, POST), p)
    /\ nbr.kind = "raster" =>
          \A p \in Pixels :
              nbr.px[p].valid =>
                  /\ CompositeScoreLow(CreateComposite(catalog, INIT), p)
                  /\ CompositeScoreLow(CreateComposite(catalog, POST), p)

\* A pixel valid in the INIT composite whose own score is above 0.5: it is
\* no-data in the burn mask although the delta of the two composites is
\* above 0.44.
C10_Witness ==
    /\ nbr.kind = "raster"
    /\ LET ci == CreateComposite(catalog, INIT)
           cp == CreateComposite(catalog, POST)
       IN  \E p \in Pixels :
              /\ RatiosDefined(ci, cp, p)
              /\ RLt(Rat(1, 2), CloudDensityPx(ci.px[p]).v)
              /\ RLt(Rat(44, 100), Delta(ci, cp, p))
              /\ ~nbr.px[p].valid

====
